---- MODULE Spec2Model ----
(***************************************************************************)
(* Model of WrightTools' artists.py: the figure-geometry routine           *)
(* create_figure, its spacing converters in_to_mpl / mpl_to_in and the     *)
(* margin helper subplots_adjust; the colour cycle get_color_cycle; the    *)
(* pixel corners of pcolor_helper; the constructor of difference_2D.       *)
(*                                                                         *)
(* Numbers.  The program computes with floats.  A number is modelled as a  *)
(* record [n, d]: the exact rational n/d (d > 0, lowest terms), or one of  *)
(* the IEEE specials that numpy's arithmetic produces: [1,0] = inf,        *)
(* [-1,0] = -inf, [0,0] = nan.  Rounding is not modelled: every finite     *)
(* result is the exact one, so an equality below is the program's equality *)
(* up to floating-point rounding.  Signed zeros are not modelled.          *)
(***************************************************************************)
EXTENDS Integers, Sequences, FiniteSets, TLC

VARIABLES request, pc, result, figures, conv, defaults, omitted, history,
          cycle, pcolor, minuend, subtrahend, diff,
          artist, loop, disk, panels

vars == <<request, pc, result, figures, conv, defaults, omitted, history,
          cycle, pcolor, minuend, subtrahend, diff,
          artist, loop, disk, panels>>

\* the state of the plot methods of mpl_1D, mpl_2D and difference_2D
plot_vars == <<artist, loop, disk, panels>>

\* the state of create_figure and of its converters
layout_vars == <<request, pc, result, figures, conv, defaults, omitted, history>>

(***************************************************************************)
(* Float arithmetic                                                        *)
(***************************************************************************)
Abs(x) == IF x < 0 THEN -x ELSE x

Sign(x) == IF x > 0 THEN 1 ELSE IF x < 0 THEN -1 ELSE 0

RECURSIVE GCD(_, _)
GCD(a, b) == IF b = 0 THEN a ELSE GCD(b, a % b)

\* the float n/d, in normal form
Norm(n, d) ==
    IF d = 0 THEN [n |-> Sign(n), d |-> 0]
    ELSE LET g == GCD(Abs(n), Abs(d))
         IN  [n |-> (Sign(d) * n) \div g, d |-> Abs(d) \div g]

R(n, d) == Norm(n, d)

I(k) == [n |-> k, d |-> 1]

Zero == I(0)

One == I(1)

Inf == [n |-> 1, d |-> 0]

NaN == [n |-> 0, d |-> 0]

IsNaN(a) == a.d = 0 /\ a.n = 0

IsFinite(a) == a.d > 0

IsZero(a) == a.d > 0 /\ a.n = 0

Neg(a) == [n |-> -a.n, d |-> a.d]

Add(a, b) ==
    IF a.d = 0 /\ b.d = 0
    THEN (IF a.n = b.n THEN a ELSE NaN)
    ELSE Norm(a.n * b.d + b.n * a.d, a.d * b.d)

Sub(a, b) == Add(a, Neg(b))

Mul(a, b) == Norm(a.n * b.n, a.d * b.d)

\* 1/b: 1/0 = inf, 1/inf = 0, 1/nan = nan
Inv(b) ==
    IF b.d = 0 THEN (IF b.n = 0 THEN NaN ELSE Zero)
    ELSE IF b.n = 0 THEN Inf
    ELSE [n |-> Sign(b.n) * b.d, d |-> Abs(b.n)]

\* numpy's a / b (a Python float division raises where b is zero: see the callers)
Div(a, b) == Mul(a, Inv(b))

\* IEEE comparisons: every comparison with nan is false
Eq(a, b) == ~IsNaN(a) /\ ~IsNaN(b) /\ a = b

Lt(a, b) ==
    /\ ~IsNaN(a) /\ ~IsNaN(b) /\ a # b
    /\ IF a.d = 0 THEN a.n < 0
       ELSE IF b.d = 0 THEN b.n > 0
       ELSE a.n * b.d < b.n * a.d

Ge(a, b) == ~IsNaN(a) /\ ~IsNaN(b) /\ ~Lt(a, b)

RECURSIVE SumSeq(_)
\* the builtin sum() of a list of floats
SumSeq(s) == IF s = <<>> THEN Zero ELSE Add(SumSeq(SubSeq(s, 1, Len(s) - 1)), s[Len(s)])

(***************************************************************************)
(* create_figure: the request                                              *)
(*   width      [tag |-> "single" | "double" | "num", v |-> float]         *)
(*   cols       a list of column descriptors                               *)
(*   aspects    a list of <<<<row, col>>, aspect>>, indices counted from 0 *)
(***************************************************************************)
\* a column descriptor: a number, the string 'cbar', or some other string
Num(w) == [tag |-> "num", w |-> w]

Cbar == [tag |-> "cbar", w |-> 0]

Str == [tag |-> "str", w |-> 0]

IsCbar(col) == col.tag = "cbar"

\* first position (from 1) of x in the list s: list.index(x) + 1
Index(s, x) == CHOOSE k \in 1..Len(s) : s[k] = x /\ \A j \in 1..(k - 1) : s[j] # x

Count(s, x) == Cardinality({k \in 1..Len(s) : s[k] = x})

figure_width(r) ==
    CASE r.width.tag = "double" -> I(14)
      [] r.width.tag = "single" -> R(13, 2)
      [] OTHER -> r.width.v

rows_in_aspects(aspects) == [k \in 1..Len(aspects) |-> aspects[k][1][1]]

\* not len(rows_in_aspects) == len(set(rows_in_aspects))
\* a slip: the columns of the entries are compared, not the rows
aspects_invalid_by_col(aspects) ==
    LET colsOf == [k \in 1..Len(aspects) |-> aspects[k][1][2]]
    IN  Len(colsOf) # Cardinality({colsOf[k] : k \in 1..Len(colsOf)})

aspects_invalid(aspects) ==
    LET rows == rows_in_aspects(aspects)
    IN  Len(rows) # Cardinality({rows[k] : k \in 1..Len(rows)})

\* a slip: one gap counted per column
total_subplot_width_gap_per_col(r) ==
    Sub(Sub(Sub(figure_width(r), Mul(I(2), r.margin)),
            Mul(I(Len(r.cols)), r.wspace)),
        Mul(I(Count(r.cols, Cbar)), r.cbar_width))

total_subplot_width(r) ==
    Sub(Sub(Sub(figure_width(r), Mul(I(2), r.margin)),
            Mul(I(Len(r.cols) - 1), r.wspace)),
        Mul(I(Count(r.cols, Cbar)), r.cbar_width))

(***************************************************************************)
(* The converters between a spacing in inches and matplotlib's relative    *)
(* spacing (a fraction of the average slot size).  The value is the IEEE   *)
(* one; with Python floats a zero divisor raises ZeroDivisionError instead.*)
(***************************************************************************)
in_to_mpl_divisor(inches, total, n) == Add(Sub(total, Mul(inches, I(n))), inches)

\* a slip: the last gap is not given back to the slots
in_to_mpl_no_last_gap(inches, total, n) ==
    Div(Mul(inches, I(n)), Sub(total, Mul(inches, I(n))))

in_to_mpl(inches, total, n) == Div(Mul(inches, I(n)), in_to_mpl_divisor(inches, total, n))

mpl_to_in_divisor(mpl, total, n) == Add(I(n), Mul(mpl, I(n - 1)))

\* a slip: one gap counted per slot
mpl_to_in_gap_per_slot(mpl, total, n) ==
    Mul(Div(total, Add(I(n), Mul(mpl, I(n)))), mpl)

mpl_to_in(mpl, total, n) == Mul(Div(total, mpl_to_in_divisor(mpl, total, n)), mpl)

(***************************************************************************)
(* create_figure: column widths                                            *)
(***************************************************************************)
\* [i for i in cols if not i == 'cbar']
content_cols(cols) == SelectSeq(cols, LAMBDA c : ~IsCbar(c))

\* np.array(..., dtype=np.float) raises ValueError on a string that is no number
ratios_invalid(cols) == \E k \in 1..Len(cols) : cols[k].tag = "str"

\* a slip: the weights are not normalised
subplot_ratios_raw(cols) ==
    [k \in 1..Len(content_cols(cols)) |-> I(content_cols(cols)[k].w)]

\* subplot_ratios /= sum(subplot_ratios): numpy's division, which does not raise
subplot_ratios(cols) ==
    LET raw   == [k \in 1..Len(content_cols(cols)) |-> I(content_cols(cols)[k].w)]
        total == SumSeq(raw)
    IN  [k \in 1..Len(raw) |-> Div(raw[k], total)]

subplot_widths(r) ==
    LET ratios == subplot_ratios(r.cols)
        tsw    == total_subplot_width(r)
    IN  [k \in 1..Len(ratios) |-> Mul(tsw, ratios[k])]

\* the counter i of the loop over cols when it reaches position k (from 1)
content_index(cols, k) == Cardinality({j \in 1..(k - 1) : ~IsCbar(cols[j])})

\* cols_idxs: the content index of every column, np.nan for a colorbar column
cols_idxs(cols) ==
    [k \in 1..Len(cols) |-> IF IsCbar(cols[k]) THEN NaN ELSE I(content_index(cols, k))]

width_ratios(r) ==
    LET widths == subplot_widths(r)
    IN  [k \in 1..Len(r.cols) |->
            IF IsCbar(r.cols[k]) THEN r.cbar_width
            ELSE widths[content_index(r.cols, k) + 1]]

(***************************************************************************)
(* create_figure: row heights and figure height                            *)
(***************************************************************************)
\* a slip: a row without override takes the width of the last content column
row_height_default_last(r, widths, row_index) ==
    LET rows == rows_in_aspects(r.aspects)
    IN  IF \E k \in 1..Len(rows) : rows[k] = row_index
        THEN LET item      == r.aspects[Index(rows, row_index)]
                 aspect    == item[2]
                 col_index == item[1][2]
             IN  Mul(widths[col_index + 1], aspect)
        ELSE widths[Len(widths)]

\* the height of row row_index (from 0); widths is subplot_widths
row_height(r, widths, row_index) ==
    LET rows == rows_in_aspects(r.aspects)
    IN  IF \E k \in 1..Len(rows) : rows[k] = row_index
        THEN LET item      == r.aspects[Index(rows, row_index)]
                 aspect    == item[2]
                 col_index == item[1][2]
             IN  Mul(widths[col_index + 1], aspect)
        ELSE widths[1]

\* an index into subplot_widths that is out of range raises IndexError
heights_invalid(r) ==
    LET rows == rows_in_aspects(r.aspects)
        n    == Len(content_cols(r.cols))
    IN  \E row_index \in 0..(r.nrows - 1) :
            IF \E k \in 1..Len(rows) : rows[k] = row_index
            THEN r.aspects[Index(rows, row_index)][1][2] >= n
            ELSE n = 0

subplot_heights(r) ==
    LET widths == subplot_widths(r)
    IN  [k \in 1..r.nrows |-> row_height(r, widths, k - 1)]

\* a slip: one gap counted per row
figure_height_gap_per_row(r) ==
    Add(Add(SumSeq(subplot_heights(r)), Mul(I(r.nrows), r.hspace)),
        Mul(I(2), r.margin))

figure_height(r) ==
    Add(Add(SumSeq(subplot_heights(r)), Mul(I(r.nrows - 1), r.hspace)),
        Mul(I(2), r.margin))

(***************************************************************************)
(* subplots_adjust(fig, inches): left = inches/width, bottom =             *)
(* inches/height, right = 1 - left, top = 1 - bottom.  size is a numpy     *)
(* array, so the divisions do not raise.  The call it ends with,           *)
(* Figure.subplots_adjust, is matplotlib's: SubplotParams.update raises    *)
(* ValueError when left >= right or bottom >= top.                         *)
(***************************************************************************)
\* a slip: the margin divided by the other side of the figure
subplots_adjust_swapped(size, inches) ==
    LET vert == Div(inches, size[2])
        horz == Div(inches, size[1])
    IN  [left |-> vert, bottom |-> horz, right |-> Sub(One, vert), top |-> Sub(One, horz)]

subplots_adjust(size, inches) ==
    LET vert == Div(inches, size[1])
        horz == Div(inches, size[2])
    IN  [left |-> vert, bottom |-> horz, right |-> Sub(One, vert), top |-> Sub(One, horz)]

subplots_adjust_invalid(pars) == Ge(pars.left, pars.right) \/ Ge(pars.bottom, pars.top)

(***************************************************************************)
(* create_figure(width, nrows, cols, margin, hspace, wspace, cbar_width,   *)
(* aspects): what the call does, in the order of the source.               *)
(*   status  "returned" or "raised"; exc the exception raised              *)
(*   created plt.figure was called: the call has opened a figure           *)
(*   figsize of that figure; gs what GridSpec was given; subplotpars what  *)
(*   subplots_adjust has set on the figure                                 *)
(* plt.figure and GridSpec take whatever they are given.                   *)
(***************************************************************************)
NoPars == [left |-> Zero, bottom |-> Zero, right |-> Zero, top |-> Zero]

NoGs == [nrows |-> 0, ncols |-> 0, hspace |-> Zero, wspace |-> Zero,
         width_ratios |-> <<>>, height_ratios |-> <<>>]

NoResult == [status |-> "none", exc |-> "", created |-> FALSE,
             figsize |-> <<Zero, Zero>>, gs |-> NoGs, subplotpars |-> NoPars]

Raised(exc, created, figsize) ==
    [status |-> "raised", exc |-> exc, created |-> created,
     figsize |-> figsize, gs |-> NoGs, subplotpars |-> NoPars]

create_figure(r) ==
    IF aspects_invalid(r.aspects) THEN Raised("Exception", FALSE, <<Zero, Zero>>)
    ELSE IF ratios_invalid(r.cols) THEN Raised("ValueError", FALSE, <<Zero, Zero>>)
    ELSE IF heights_invalid(r) THEN Raised("IndexError", FALSE, <<Zero, Zero>>)
    ELSE
    LET fw      == figure_width(r)
        fh      == figure_height(r)
        figsize == <<fw, fh>>
        \* hspace: total is a numpy float, the division does not raise
        hspace  == in_to_mpl(r.hspace, Sub(fh, Mul(I(2), r.margin)), r.nrows)
        \* wspace: Python floats, a zero divisor raises
        wtotal  == Sub(fw, Mul(I(2), r.margin))
        wspace  == in_to_mpl(r.wspace, wtotal, Len(r.cols))
        gs      == [nrows |-> r.nrows, ncols |-> Len(r.cols),
                    hspace |-> hspace, wspace |-> wspace,
                    width_ratios |-> width_ratios(r),
                    height_ratios |-> subplot_heights(r)]
        pars    == subplots_adjust(figsize, r.margin)
    IN  IF IsZero(in_to_mpl_divisor(r.wspace, wtotal, Len(r.cols)))
        THEN Raised("ZeroDivisionError", TRUE, figsize)
        ELSE IF subplots_adjust_invalid(pars)
        THEN Raised("ValueError", TRUE, figsize)
        ELSE [status |-> "returned", exc |-> "", created |-> TRUE,
              figsize |-> figsize, gs |-> gs, subplotpars |-> pars]

(***************************************************************************)
(* The requests of the model                                               *)
(***************************************************************************)
MaxCols == 2

MaxRows == 2

MaxAspects == 2

\* <<width, margin>>: the default width and margin, a wide figure with a
\* narrow margin, and two widths that leave no room for the subplots
Sizes == {<<[tag |-> "single", v |-> Zero], One>>,
          <<[tag |-> "double", v |-> Zero], R(1, 2)>>,
          <<[tag |-> "num", v |-> I(2)], One>>,
          <<[tag |-> "num", v |-> R(5, 2)], One>>}

Descriptors == {Num(-1), Num(0), Num(1), Num(2), Cbar, Str}

HSpaces == {R(1, 2)}

WSpaces == {R(1, 4)}

CbarWidths == {R(1, 4)}

AspectRatios == {I(2)}

SeqsUpTo(S, n) == UNION {[1..k -> S] : k \in 0..n}

\* the aspects lists of a figure of nrows rows and ncols columns
AspectLists(nrows, ncols) ==
    SeqsUpTo({<<<<row, col>>, a>> :
                 row \in 0..(nrows - 1), col \in 0..(ncols - 1), a \in AspectRatios},
             MaxAspects)

ColLists == SeqsUpTo(Descriptors, MaxCols) \ {<<>>}

NoConv == [op |-> "none", s |-> Zero, total |-> Zero, n |-> 0, stage |-> 0,
           val |-> Zero, raised |-> FALSE]

(***************************************************************************)
(* The other routines modelled below have their own state, which stays as  *)
(* it is here while create_figure and the converters run.                  *)
(***************************************************************************)
NoCycle == [n |-> 0, cmap |-> "rainbow", rotations |-> 3, stage |-> "ready",
            status |-> "none", exc |-> "", vals |-> <<>>, out |-> <<>>]

NoPcolor == [xi |-> <<>>, yi |-> <<>>, zi |-> <<>>, stage |-> "ready",
             status |-> "none", exc |-> "", X |-> <<>>, Y |-> <<>>, Z |-> <<>>]

NoData == [axes |-> <<>>]

NoDiff == [stage |-> "ready", status |-> "none", exc |-> "", log |-> <<>>,
           minuend |-> NoData, subtrahend |-> NoData,
           minuend_chopped |-> <<>>, subtrahend_chopped |-> <<>>, font_size |-> 0]

\* no limits given: None
NoLimits == <<>>

NoArtist == [kind |-> "none", nplots |-> 0, xpoints |-> NoLimits, ypoints |-> NoLimits,
             xsideplot |-> FALSE, ysideplot |-> FALSE, autosave |-> FALSE,
             output_folder |-> "", fname |-> "", xlim |-> NoLimits, xbin |-> FALSE]

NoLoop == [at |-> "idle", i |-> 0, fig |-> 0, made |-> 0, autosave |-> FALSE,
           output_folder |-> "", fname |-> "", xlim |-> NoLimits]

NoDisk == [folders |-> {}, files |-> {}]

PlotIdle ==
    /\ artist = NoArtist
    /\ loop = NoLoop
    /\ disk = NoDisk
    /\ panels = <<>>

OthersIdle ==
    /\ cycle = NoCycle
    /\ pcolor = NoPcolor
    /\ minuend = NoData
    /\ subtrahend = NoData
    /\ diff = NoDiff
    /\ PlotIdle

(***************************************************************************)
(* The default arguments cols=[1, 'cbar'] and aspects=[] are two list      *)
(* objects made once, when the function is defined, and shared by every    *)
(* call that leaves the argument out.                                      *)
(*   defaults  the two default list objects, as they are now               *)
(*   omitted   the arguments the caller leaves out, of "cols", "aspects"   *)
(*   history   the results of the calls made so far                        *)
(***************************************************************************)
DefaultArgs == [cols |-> <<Num(1), Cbar>>, aspects |-> <<>>]

\* the arguments the body of the function sees
actual_args(r, left_out, dflt) ==
    [r EXCEPT !.cols = IF "cols" \in left_out THEN dflt.cols ELSE @,
              !.aspects = IF "aspects" \in left_out THEN dflt.aspects ELSE @]

\* a slip: the colorbar entries are taken out of the list itself
args_after_strip(r) == [r EXCEPT !.cols = content_cols(@)]

\* the argument objects when the call ends: the body only reads cols and
\* aspects (it builds new lists and arrays from them), so they are as passed
args_after(r) == r

NoCallsYet ==
    /\ defaults = DefaultArgs
    /\ omitted = {}
    /\ history = <<>>

\* the arguments of the call are chosen; the call is still to be made and no
\* figure is open
Init ==
    /\ \E nrows \in 1..MaxRows, cols \in ColLists, sz \in Sizes,
          h \in HSpaces, ws \in WSpaces, cw \in CbarWidths :
          \E aspects \in AspectLists(nrows, Len(cols)) :
             request = [width |-> sz[1], nrows |-> nrows, cols |-> cols,
                        margin |-> sz[2], hspace |-> h, wspace |-> ws,
                        cbar_width |-> cw, aspects |-> aspects]
    /\ pc = "ready"
    /\ result = NoResult
    /\ figures = {}
    /\ conv = NoConv
    /\ NoCallsYet
    /\ OthersIdle

\* the call create_figure(width, nrows, cols, margin, hspace, wspace, cbar_width, aspects)
\* with the arguments named in omitted left out.  The lists the caller passed
\* and the default lists are what the call leaves of them.
CreateFigure ==
    /\ pc = "ready"
    /\ pc' = "done"
    /\ LET args == actual_args(request, omitted, defaults)
           left == args_after(args)
       IN  /\ result' = create_figure(args)
           /\ request' = [request EXCEPT
                  !.cols = IF "cols" \in omitted THEN @ ELSE left.cols,
                  !.aspects = IF "aspects" \in omitted THEN @ ELSE left.aspects]
           /\ defaults' = [cols |-> IF "cols" \in omitted THEN left.cols
                                    ELSE defaults.cols,
                           aspects |-> IF "aspects" \in omitted THEN left.aspects
                                       ELSE defaults.aspects]
    /\ figures' = IF result'.created THEN figures \cup {Cardinality(figures) + 1}
                  ELSE figures
    /\ history' = Append(history, result')
    /\ UNCHANGED <<conv, omitted>>
    /\ UNCHANGED <<cycle, pcolor, minuend, subtrahend, diff>>
    /\ UNCHANGED plot_vars

Next == CreateFigure

Spec == Init /\ [][Next]_vars

(***************************************************************************)
(* The same call on wider layouts: up to MaxCols + 1 columns, each a       *)
(* weight of 1 or 2 or 'cbar', in a figure of the default width with the   *)
(* default margin.                                                         *)
(***************************************************************************)
WideDescriptors == {Num(1), Num(2), Cbar}

WideColLists == SeqsUpTo(WideDescriptors, MaxCols + 1) \ {<<>>}

WideInit ==
    /\ \E nrows \in 1..MaxRows, cols \in WideColLists :
          \E aspects \in AspectLists(nrows, Len(cols)) :
             request = [width |-> [tag |-> "single", v |-> Zero], nrows |-> nrows,
                        cols |-> cols, margin |-> One, hspace |-> R(1, 4),
                        wspace |-> R(1, 4), cbar_width |-> R(1, 4),
                        aspects |-> aspects]
    /\ pc = "ready"
    /\ result = NoResult
    /\ figures = {}
    /\ conv = NoConv
    /\ NoCallsYet
    /\ OthersIdle

WideSpec == WideInit /\ [][Next]_vars

(***************************************************************************)
(* Repeated calls: the caller makes the same call again, with the same     *)
(* list objects and the same arguments left out, up to MaxCalls times.     *)
(***************************************************************************)
MaxCalls == 2

RepeatInit ==
    /\ \E nrows \in 1..MaxRows, left_out \in SUBSET {"cols", "aspects"} :
          \E cols \in IF "cols" \in left_out THEN {DefaultArgs.cols}
                      ELSE SeqsUpTo(WideDescriptors, MaxCols) \ {<<>>} :
             \E aspects \in IF "aspects" \in left_out THEN {DefaultArgs.aspects}
                            ELSE AspectLists(nrows, Len(cols)) :
                /\ request = [width |-> [tag |-> "single", v |-> Zero],
                              nrows |-> nrows, cols |-> cols, margin |-> One,
                              hspace |-> R(1, 4), wspace |-> R(1, 4),
                              cbar_width |-> R(1, 4), aspects |-> aspects]
                /\ omitted = left_out
    /\ pc = "ready"
    /\ result = NoResult
    /\ figures = {}
    /\ conv = NoConv
    /\ defaults = DefaultArgs
    /\ history = <<>>
    /\ OthersIdle

\* the caller gets ready to call again
CallAgain ==
    /\ pc = "done"
    /\ Len(history) < MaxCalls
    /\ pc' = "ready"
    /\ UNCHANGED <<request, result, figures, conv, defaults, omitted, history>>
    /\ UNCHANGED <<cycle, pcolor, minuend, subtrahend, diff>>
    /\ UNCHANGED plot_vars

RepeatNext == CreateFigure \/ CallAgain

RepeatSpec == RepeatInit /\ [][RepeatNext]_vars

(***************************************************************************)
(* Properties of create_figure, stated on what the call hands to           *)
(* plt.figure, GridSpec and subplots_adjust.                               *)
(***************************************************************************)
Done == pc = "done"

Returned == pc = "done" /\ result.status = "returned"

Failed == pc = "done" /\ result.status = "raised" /\ result.gs = NoGs

\* a column descriptor of the data model: a positive weight or 'cbar'
IsPositiveWeight(col) == col.tag = "num" /\ col.w > 0

ColsValid(cols) == \A k \in 1..Len(cols) : IsCbar(cols[k]) \/ IsPositiveWeight(cols[k])

\* the request is one of positive weights and 'cbar' columns, and the call returned
Accepted == Returned /\ ColsValid(request.cols)

NumCbar(cols) == Cardinality({k \in 1..Len(cols) : IsCbar(cols[k])})

\* C1: for every accepted request the column widths handed to the grid, the
\* gaps between them and the two margins add up to the figure width.
C1_WidthsFillFigure ==
    Accepted =>
        Eq(Add(Add(SumSeq(result.gs.width_ratios),
                   Mul(I(Len(request.cols) - 1), request.wspace)),
               Mul(I(2), request.margin)),
           result.figsize[1])

\* the default call: one subplot of width 4 and a colorbar of width 0.25
C1_Witness ==
    /\ Accepted
    /\ request.width.tag = "single"
    /\ request.cols = <<Num(1), Cbar>>
    /\ result.gs.width_ratios = <<I(4), R(1, 4)>>

\* C2: for every accepted request the height of the figure that was created is
\* the sum of the height_ratios handed to the grid, plus (nrows-1)*hspace, plus
\* 2*margin.
C2_HeightIsSumOfRows ==
    Accepted =>
        /\ Len(result.gs.height_ratios) = request.nrows
        /\ Eq(result.figsize[2],
              Add(Add(SumSeq(result.gs.height_ratios),
                      Mul(I(request.nrows - 1), request.hspace)),
                  Mul(I(2), request.margin)))

C2_Witness ==
    /\ Accepted
    /\ request.nrows = 2
    /\ request.aspects # <<>>
    /\ result.gs.height_ratios[1] # result.gs.height_ratios[2]

\* the width and height between the margins
InnerWidth == Sub(result.figsize[1], Mul(I(2), request.margin))

InnerHeight == Sub(result.figsize[2], Mul(I(2), request.margin))

\* the width that the specification calls content_width
ContentWidth ==
    Sub(Sub(Sub(figure_width(request), Mul(I(2), request.margin)),
            Mul(I(Len(request.cols) - 1), request.wspace)),
        Mul(I(NumCbar(request.cols)), request.cbar_width))

\* the grid primitive's convention: a relative spacing f of n slots in T is
\* (T / (n + f*(n-1))) * f inches
GridGap(f, T, n) == Mul(Div(T, Add(I(n), Mul(f, I(n - 1)))), f)

\* C5: for every accepted request the wspace and hspace fractions passed to
\* GridSpec stand, by the grid's convention, for the requested wspace and
\* hspace in inches.
C5_GapsPreserved ==
    Accepted =>
        /\ Eq(GridGap(result.gs.wspace, InnerWidth, Len(request.cols)), request.wspace)
        /\ Eq(GridGap(result.gs.hspace, InnerHeight, request.nrows), request.hspace)

\* two entries of aspects name the same row
DuplicateRow(aspects) ==
    \E i, j \in 1..Len(aspects) : i # j /\ aspects[i][1][1] = aspects[j][1][1]

\* C6: a call whose aspects name a row twice fails: it raises, no figure is
\* created and no grid is made.
C6_DuplicateRowFails ==
    (Done /\ DuplicateRow(request.aspects)) =>
        (Failed /\ result.exc = "Exception" /\ ~result.created /\ figures = {})

C6_Witness ==
    /\ Failed
    /\ Len(request.aspects) = 2
    /\ request.aspects[1][1][1] = request.aspects[2][1][1]
    /\ request.aspects[1][1][2] # request.aspects[2][1][2]
    /\ ColsValid(request.cols)

\* C7: a call on positive weights and 'cbar' columns that leaves no width for
\* the content columns (content_width <= 0) fails.
C7_NoRoomFails ==
    (Done /\ ColsValid(request.cols) /\ ~Lt(Zero, ContentWidth)) => Failed

\* an entry of aspects names a colorbar column of cols
AspectOnCbar(r) ==
    \E k \in 1..Len(r.aspects) :
        /\ r.aspects[k][1][2] < Len(r.cols)
        /\ IsCbar(r.cols[r.aspects[k][1][2] + 1])

\* C8: a call with an aspect on a colorbar column fails, wherever the colorbar
\* column stands in cols (stated for requests that are valid in every other
\* respect: positive weights, room for the content, no row named twice).
C8_AspectOnCbarFails ==
    (/\ Done
     /\ AspectOnCbar(request)
     /\ ColsValid(request.cols)
     /\ Lt(Zero, ContentWidth)
     /\ ~DuplicateRow(request.aspects)) => Failed

\* C9: a call with a column that is neither a positive weight nor 'cbar'
\* (a zero or negative weight included) fails.
C9_BadColumnFails == (Done /\ ~ColsValid(request.cols)) => Failed

\* the sum of the weights of the content columns
RECURSIVE WeightSum(_)
WeightSum(cols) ==
    IF cols = <<>> THEN 0
    ELSE WeightSum(Tail(cols)) + (IF IsCbar(Head(cols)) THEN 0 ELSE Head(cols).w)

\* what C10 says of every column: cbar_width for a colorbar column and
\* content_width * weight / sum(weights) for a content column, in the order of cols
WidthsByWeight ==
    /\ Len(result.gs.width_ratios) = Len(request.cols)
    /\ \A k \in 1..Len(request.cols) :
          Eq(result.gs.width_ratios[k],
             IF IsCbar(request.cols[k]) THEN request.cbar_width
             ELSE Div(Mul(ContentWidth, I(request.cols[k].w)),
                      I(WeightSum(request.cols))))

\* the example of C10: cols [1, 1], width 6.5, margin 1, wspace 0.25
C10_Example ==
    /\ request.cols = <<Num(1), Num(1)>>
    /\ request.width.tag = "single"
    /\ request.margin = One
    /\ request.wspace = R(1, 4)

\* C10 as stated: for every accepted request the columns get their widths by
\* weight, and the example gives 1.625 and 1.625.
C10_WidthsByWeight_AsStated ==
    Accepted =>
        /\ WidthsByWeight
        /\ C10_Example => result.gs.width_ratios = <<R(13, 8), R(13, 8)>>

\* C10, amended: for every accepted request the columns get their widths by
\* weight, and the example gives 2.125 and 2.125 (content_width is
\* 6.5 - 2*1 - 0.25 = 4.25).
C10_WidthsByWeight ==
    Accepted =>
        /\ WidthsByWeight
        /\ C10_Example => result.gs.width_ratios = <<R(17, 8), R(17, 8)>>

C10_Witness ==
    /\ Accepted
    /\ C10_Example
    /\ result.gs.width_ratios = <<R(17, 8), R(17, 8)>>

(***************************************************************************)
(* Row heights and aspect overrides.                                       *)
(***************************************************************************)
\* the rows (from 0) that an entry of aspects names
OverriddenRows(aspects) == {aspects[k][1][1] : k \in 1..Len(aspects)}

\* the position in cols (from 1) of the leftmost content column
FirstContent(cols) ==
    CHOOSE k \in 1..Len(cols) :
        /\ ~IsCbar(cols[k])
        /\ \A j \in 1..(k - 1) : IsCbar(cols[j])

\* C11: for every accepted request, each row that no entry of aspects names
\* has the height of the leftmost content column's width.
C11_DefaultRowIsSquare ==
    Accepted =>
        \A row \in 0..(request.nrows - 1) :
            row \notin OverriddenRows(request.aspects) =>
                Eq(result.gs.height_ratios[row + 1],
                   result.gs.width_ratios[FirstContent(request.cols)])

\* cols [1, 2], two rows, row 0 overridden on column 1: row 1 is as high as
\* column 0 is wide, and column 1 is wider
C11_Witness ==
    /\ Accepted
    /\ request.cols = <<Num(1), Num(2)>>
    /\ request.nrows = 2
    /\ request.aspects = << <<<<0, 1>>, I(2)>> >>
    /\ Eq(result.gs.height_ratios[2], result.gs.width_ratios[1])
    /\ Lt(result.gs.width_ratios[1], result.gs.width_ratios[2])

\* entry k of aspects names a content column of cols
TargetsContent(r, k) == ~IsCbar(r.cols[r.aspects[k][1][2] + 1])

\* the entries of aspects that name row
OnlyRow(aspects, row) ==
    LET keep(item) == item[1][1] = row
    IN  SelectSeq(aspects, keep)

\* C12: for every accepted request, a row whose entry [[row, col], a] names a
\* content column gets the height a * (width of column col), and each row
\* has the height it has when the entries of the other rows are left out.
C12_OverrideHeight ==
    Accepted =>
        /\ \A k \in 1..Len(request.aspects) :
              TargetsContent(request, k) =>
                 Eq(result.gs.height_ratios[request.aspects[k][1][1] + 1],
                    Mul(request.aspects[k][2],
                        result.gs.width_ratios[request.aspects[k][1][2] + 1]))
        /\ \A row \in 0..(request.nrows - 1) :
              Eq(result.gs.height_ratios[row + 1],
                 create_figure([request EXCEPT
                     !.aspects = OnlyRow(request.aspects, row)]).gs.height_ratios[row + 1])

\* C13: for every accepted request and every entry [[row, col], aspect] of
\* aspects that names a content column, the cell [row, col] of the grid has
\* height / width = aspect, also when 'cbar' columns stand before col.
C13_CellAspect ==
    Accepted =>
        \A k \in 1..Len(request.aspects) :
            TargetsContent(request, k) =>
                Eq(Div(result.gs.height_ratios[request.aspects[k][1][1] + 1],
                       result.gs.width_ratios[request.aspects[k][1][2] + 1]),
                   request.aspects[k][2])

(***************************************************************************)
(* Margins.                                                                *)
(***************************************************************************)
\* C14: for every accepted request the subplot area set on the figure has
\* the request's margin on all four sides: left = margin / figure width,
\* right = 1 - left, bottom = margin / figure height, top = 1 - bottom.
C14_MarginOnAllSides ==
    Accepted =>
        LET horizontal == Div(request.margin, result.figsize[1])
            vertical   == Div(request.margin, result.figsize[2])
        IN  /\ Eq(result.subplotpars.left, horizontal)
            /\ Eq(result.subplotpars.right, Sub(One, horizontal))
            /\ Eq(result.subplotpars.bottom, vertical)
            /\ Eq(result.subplotpars.top, Sub(One, vertical))

\* a margin of 1/2 inch in a figure that is higher than wide
C14_Witness ==
    /\ Accepted
    /\ request.margin = R(1, 2)
    /\ Lt(result.figsize[1], result.figsize[2])
    /\ Eq(Mul(result.subplotpars.left, result.figsize[1]), R(1, 2))
    /\ Eq(Mul(Sub(One, result.subplotpars.top), result.figsize[2]), R(1, 2))

(***************************************************************************)
(* Errors and the figures left open.                                       *)
(***************************************************************************)
\* C15: a call that ends with an error has created no figure, so the set of
\* open figures is as before the call (empty); a call that returns has
\* created a figure and hands back a grid of nrows rows and len(cols) columns.
C15_NoPartialSuccess ==
    Done =>
        /\ result.status = "raised" => (~result.created /\ figures = {})
        /\ result.status = "returned" =>
              /\ result.created
              /\ figures # {}
              /\ Len(result.gs.height_ratios) = request.nrows
              /\ Len(result.gs.width_ratios) = Len(request.cols)

(***************************************************************************)
(* The arguments and the default lists over repeated calls.                *)
(***************************************************************************)
\* two calls have computed the same layout
SameLayout(a, b) ==
    /\ a.status = b.status
    /\ a.exc = b.exc
    /\ a.figsize = b.figsize
    /\ a.gs = b.gs

MaxSlots == 3

ConvValues == {R(-1, 2), Zero, R(1, 4), R(1, 2), One, I(2)}

ConvTotals == {I(-1), Zero, R(1, 4), R(1, 2), One, R(9, 2)}

\* the signature's defaults
DefaultRequest ==
    [width |-> [tag |-> "single", v |-> Zero], nrows |-> 1, cols |-> <<Num(1), Cbar>>,
     margin |-> One, hspace |-> R(1, 4), wspace |-> R(1, 4), cbar_width |-> R(1, 4),
     aspects |-> <<>>]

ConvInit ==
    /\ \E op \in {"in_mpl_in", "mpl_in_mpl"}, s \in ConvValues, total \in ConvTotals,
          n \in 0..MaxSlots :
          conv = [op |-> op, s |-> s, total |-> total, n |-> n, stage |-> 0,
                  val |-> s, raised |-> FALSE]
    /\ request = DefaultRequest
    /\ pc = "ready"
    /\ result = NoResult
    /\ figures = {}
    /\ NoCallsYet
    /\ OthersIdle

\* conv.val := in_to_mpl(conv.val, total, n)
InToMpl ==
    /\ ~conv.raised
    /\ \/ conv.op = "in_mpl_in" /\ conv.stage = 0
       \/ conv.op = "mpl_in_mpl" /\ conv.stage = 1
    /\ conv' = IF IsZero(in_to_mpl_divisor(conv.val, conv.total, conv.n))
               THEN [conv EXCEPT !.stage = @ + 1, !.raised = TRUE]
               ELSE [conv EXCEPT !.stage = @ + 1,
                                 !.val = in_to_mpl(conv.val, conv.total, conv.n)]
    /\ UNCHANGED <<request, pc, result, figures, defaults, omitted, history>>
    /\ UNCHANGED <<cycle, pcolor, minuend, subtrahend, diff>>
    /\ UNCHANGED plot_vars

\* conv.val := mpl_to_in(conv.val, total, n)
MplToIn ==
    /\ ~conv.raised
    /\ \/ conv.op = "mpl_in_mpl" /\ conv.stage = 0
       \/ conv.op = "in_mpl_in" /\ conv.stage = 1
    /\ conv' = IF IsZero(mpl_to_in_divisor(conv.val, conv.total, conv.n))
               THEN [conv EXCEPT !.stage = @ + 1, !.raised = TRUE]
               ELSE [conv EXCEPT !.stage = @ + 1,
                                 !.val = mpl_to_in(conv.val, conv.total, conv.n)]
    /\ UNCHANGED <<request, pc, result, figures, defaults, omitted, history>>
    /\ UNCHANGED <<cycle, pcolor, minuend, subtrahend, diff>>
    /\ UNCHANGED plot_vars

ConvNext == InToMpl \/ MplToIn

ConvSpec == ConvInit /\ [][ConvNext]_vars

\* the round trip has ended: by an exception or with both conversions made
ConvEnded == conv.raised \/ conv.stage = 2

ConvReproduced == ~conv.raised /\ conv.stage = 2 /\ Eq(conv.val, conv.s)

\* C3 as stated: for any spacing s, total T and slot count n,
\* mpl_to_in(in_to_mpl(s, T, n), T, n) = s.
C3_RoundTrip_AsStated ==
    (conv.op = "in_mpl_in" /\ ConvEnded) => ConvReproduced

\* C3, amended: for any spacing s, total T # 0 and slot count n >= 1 with
\* T # s*(n-1), mpl_to_in(in_to_mpl(s, T, n), T, n) = s.
C3_RoundTrip ==
    (/\ conv.op = "in_mpl_in"
     /\ ConvEnded
     /\ conv.n >= 1
     /\ ~IsZero(conv.total)
     /\ conv.total # Mul(conv.s, I(conv.n - 1))) => ConvReproduced

C3_Witness ==
    /\ conv.op = "in_mpl_in"
    /\ ConvReproduced
    /\ conv.n = 2
    /\ conv.s = R(1, 4)
    /\ conv.total = R(9, 2)

\* C4: for any relative spacing f >= 0, total T > 0 and slot count n >= 1,
\* in_to_mpl(mpl_to_in(f, T, n), T, n) = f.
C4_RoundTripBack ==
    (/\ conv.op = "mpl_in_mpl"
     /\ ConvEnded
     /\ conv.n >= 1
     /\ Lt(Zero, conv.total)
     /\ ~Lt(conv.s, Zero)) => ConvReproduced

C4_Witness ==
    /\ conv.op = "mpl_in_mpl"
    /\ ConvReproduced
    /\ conv.n = 3
    /\ conv.s = R(1, 2)
    /\ conv.total = One

(***************************************************************************)
(* get_color_cycle(n, cmap, rotations): n RGBA colours, the colormap       *)
(* sampled at per evenly spaced positions and the samples repeated         *)
(* rotations times.                                                        *)
(*   cycle.stage   "ready" before the call, "done" after it                *)
(*   cycle.vals    the positions in [0, 1] handed to the colormap          *)
(*   cycle.out     the colours: the colormap's name and the index of the   *)
(*                 entry of its lookup table                               *)
(***************************************************************************)
\* the keys of the module's dictionary of colormaps
colormaps ==
    {"CMRmap", "cubehelix", "default", "experimental", "flag", "earth",
     "gnuplot2", "greenscale", "greyscale", "invisible", "isoluminant",
     "isoluminant2", "isoluminant3", "ncar", "paried", "prism", "rainbow",
     "seismic", "signed", "signed_old", "skyebar", "skyebar_d", "skyebar_i",
     "spectral", "wright"}

\* a slip: the remainder is dropped
per_floor(n, rotations) == n \div rotations

\* the number of positions sampled in one rotation
per(n, rotations) ==
    IF n % rotations = 0 THEN n \div rotations ELSE (n \div rotations) + 1

\* np.linspace(0, 1, num): num positions from 0 to 1, both ends included
linspace(num) == [k \in 1..num |-> IF num = 1 THEN Zero ELSE R(k - 1, num - 1)]

\* a list repeated k times: vals * k
RECURSIVE Repeat(_, _)
Repeat(s, k) == IF k <= 0 THEN <<>> ELSE s \o Repeat(s, k - 1)

\* the slice vals[:n], for n >= 0
Take(s, n) == SubSeq(s, 1, IF n < Len(s) THEN n ELSE Len(s))

\* the colormap called on a position x in [0, 1]: the entry int(x * 256) of
\* its table of 256 colours, the last entry for x = 1
lut_index(x) == IF x.n = x.d THEN 255 ELSE (x.n * 256) \div x.d

get_color_cycle(n, cmap, rotations) ==
    IF cmap \notin colormaps
    THEN [status |-> "raised", exc |-> "KeyError", vals |-> <<>>, out |-> <<>>]
    ELSE LET vals == Take(Repeat(linspace(per(n, rotations)), rotations), n)
         IN  [status |-> "returned", exc |-> "", vals |-> vals,
              out |-> [k \in 1..Len(vals) |->
                          [cmap |-> cmap, index |-> lut_index(vals[k])]]]

MaxColors == 6

MaxRotations == 3

\* the names tried: the default, another key, and a name that is no key
CmapNames == {"rainbow", "default", "jet"}

CycleInit ==
    /\ \E n \in 0..MaxColors, cmap \in CmapNames, rotations \in 1..MaxRotations :
          cycle = [NoCycle EXCEPT !.n = n, !.cmap = cmap, !.rotations = rotations]
    /\ request = DefaultRequest
    /\ pc = "ready"
    /\ result = NoResult
    /\ figures = {}
    /\ conv = NoConv
    /\ NoCallsYet
    /\ pcolor = NoPcolor
    /\ minuend = NoData
    /\ subtrahend = NoData
    /\ diff = NoDiff
    /\ PlotIdle

\* the call get_color_cycle(n, cmap, rotations)
GetColorCycle ==
    /\ cycle.stage = "ready"
    /\ LET got == get_color_cycle(cycle.n, cycle.cmap, cycle.rotations)
       IN  cycle' = [cycle EXCEPT !.stage = "done", !.status = got.status,
                                  !.exc = got.exc, !.vals = got.vals, !.out = got.out]
    /\ UNCHANGED layout_vars
    /\ UNCHANGED <<pcolor, minuend, subtrahend, diff>>
    /\ UNCHANGED plot_vars

CycleNext == GetColorCycle

CycleSpec == CycleInit /\ [][CycleNext]_vars

\* C17: for every n >= 0 and rotations >= 1 and every colormap of the
\* dictionary, the call returns exactly n colours.
C17_ReturnsNColours ==
    (cycle.stage = "done" /\ cycle.cmap \in colormaps) =>
        /\ cycle.status = "returned"
        /\ Len(cycle.out) = cycle.n

\* 5 colours in 3 rotations: 3 does not divide 5, two positions per rotation,
\* and the sixth sample is cut off
C17_Witness ==
    /\ cycle.stage = "done"
    /\ cycle.n = 5
    /\ cycle.rotations = 3
    /\ cycle.vals = <<Zero, One, Zero, One, Zero>>
    /\ Len(cycle.out) = 5

\* C18: for every n and rotations, the positions of the colormap that the
\* call samples are pairwise distinct.
C18_PositionsDistinct ==
    (cycle.stage = "done" /\ cycle.status = "returned") =>
        \A i, j \in 1..Len(cycle.vals) : i # j => cycle.vals[i] # cycle.vals[j]

(***************************************************************************)
(* pcolor_helper(xi, yi, zi): the corners of the pixels for pcolor.  For   *)
(* each axis an array of len(axis) + 1 points is filled, then the two      *)
(* arrays are spread over a grid with np.meshgrid.                         *)
(*   pcolor.stage   "ready" before the call, "done" after it               *)
(*   pcolor.X, .Y   the grids returned; pcolor.Z the third value returned  *)
(***************************************************************************)
average(a, b) == Div(Add(a, b), I(2))

\* axis[0] or axis[1] does not exist: IndexError
points_invalid(axis) == Len(axis) < 2

\* the array points after the loop over j, for one axis of at least 2 points
points_of(axis) ==
    LET n == Len(axis)
    IN  [p \in 1..(n + 1) |->
            IF p = 1 THEN Sub(axis[1], Sub(axis[2], axis[1]))
            ELSE IF p = n + 1 THEN Add(axis[n], Sub(axis[n], axis[n - 1]))
            ELSE average(axis[p], axis[p - 1])]

\* np.meshgrid(x_points, y_points): one row for each y point
meshgrid(x_points, y_points) ==
    [X |-> [i \in 1..Len(y_points) |-> x_points],
     Y |-> [i \in 1..Len(y_points) |-> [j \in 1..Len(x_points) |-> y_points[i]]]]

pcolor_helper(xi, yi, zi) ==
    IF points_invalid(xi) \/ points_invalid(yi)
    THEN [status |-> "raised", exc |-> "IndexError", X |-> <<>>, Y |-> <<>>, Z |-> <<>>]
    ELSE LET grids == meshgrid(points_of(xi), points_of(yi))
         IN  [status |-> "returned", exc |-> "", X |-> grids.X, Y |-> grids.Y, Z |-> zi]

MaxPoints == 3

\* the axis of n points from start in steps of step
EvenAxis(start, step, n) == [k \in 1..n |-> Add(start, Mul(I(k - 1), step))]

\* the axes tried: evenly spaced ones, rising and falling, of 0 to MaxPoints
\* points, and one that is not evenly spaced
Axes ==
    {EvenAxis(start, step, n) :
        start \in {Zero, One}, step \in {One, R(1, 2), I(-1)}, n \in 0..MaxPoints}
    \cup {<<Zero, One, I(3)>>}

\* the values on the grid of the two axes
Values(xi, yi) == [i \in 1..Len(yi) |-> [j \in 1..Len(xi) |-> i + j]]

PcolorInit ==
    /\ \E xi \in Axes, yi \in Axes :
          pcolor = [NoPcolor EXCEPT !.xi = xi, !.yi = yi, !.zi = Values(xi, yi)]
    /\ request = DefaultRequest
    /\ pc = "ready"
    /\ result = NoResult
    /\ figures = {}
    /\ conv = NoConv
    /\ NoCallsYet
    /\ cycle = NoCycle
    /\ minuend = NoData
    /\ subtrahend = NoData
    /\ diff = NoDiff
    /\ PlotIdle

\* the call pcolor_helper(xi, yi, zi)
PcolorHelper ==
    /\ pcolor.stage = "ready"
    /\ LET got == pcolor_helper(pcolor.xi, pcolor.yi, pcolor.zi)
       IN  pcolor' = [pcolor EXCEPT !.stage = "done", !.status = got.status,
                                    !.exc = got.exc, !.X = got.X, !.Y = got.Y,
                                    !.Z = got.Z]
    /\ UNCHANGED layout_vars
    /\ UNCHANGED <<cycle, minuend, subtrahend, diff>>
    /\ UNCHANGED plot_vars

PcolorNext == PcolorHelper

PcolorSpec == PcolorInit /\ [][PcolorNext]_vars

\* an axis of at least 2 points with the same step between neighbours
EvenlySpaced(axis) ==
    /\ Len(axis) >= 2
    /\ \A k \in 2..Len(axis) : Sub(axis[k], axis[k - 1]) = Sub(axis[2], axis[1])

\* every point of axis is the midpoint of the two edges around it
Centred(axis, edges) ==
    /\ Len(edges) = Len(axis) + 1
    /\ \A j \in 1..Len(axis) : Eq(axis[j], average(edges[j], edges[j + 1]))

\* C19: for evenly spaced axes of at least 2 points the call returns, for
\* each axis, len(axis) + 1 edges with every axis[j] midway between edges[j]
\* and edges[j + 1], the first and the last included, and zi as it was given.
C19_PixelsCentred ==
    (pcolor.stage = "done" /\ EvenlySpaced(pcolor.xi) /\ EvenlySpaced(pcolor.yi)) =>
        /\ pcolor.status = "returned"
        /\ \A i \in 1..Len(pcolor.X) : Centred(pcolor.xi, pcolor.X[i])
        /\ \A j \in 1..Len(pcolor.Y[1]) :
              Centred(pcolor.yi, [i \in 1..Len(pcolor.Y) |-> pcolor.Y[i][j]])
        /\ pcolor.Z = pcolor.zi

(***************************************************************************)
(* difference_2D.__init__(minuend, subtrahend, xaxis, yaxis, at, verbose). *)
(* A data object is modelled by its list of axes, each with a name, its    *)
(* units and the number of its points.  The methods of the data class      *)
(* (copy, transpose, convert, map_axis, chop) are defined in the package's *)
(* data module; they are modelled by what their callers here rely on.      *)
(*   minuend, subtrahend   the two objects the caller holds                *)
(*   diff.minuend, diff.subtrahend   self.minuend and self.subtrahend      *)
(*   diff.log   the methods the constructor has called on the data objects *)
(***************************************************************************)
axis_names(data) == [k \in 1..Len(data.axes) |-> data.axes[k].name]

\* collections.Counter(names): each name with the number of its occurrences
Counter(names) ==
    [x \in {names[k] : k \in 1..Len(names)} |-> Count(names, x)]

\* a slip: the names compared as sets
axes_equivalent_as_sets(a, b) ==
    DOMAIN Counter(axis_names(a)) = DOMAIN Counter(axis_names(b))

\* minuend_counter == subrahend_counter
axes_equivalent(a, b) == Counter(axis_names(a)) = Counter(axis_names(b))

\* data.copy(): a new object equal to data
copy(data) == data

\* for each axis of the subtrahend, the position (from 0) of the first axis
\* of that name in the minuend
transpose_order(m, s) ==
    [k \in 1..Len(s.axes) |-> Index(axis_names(m), axis_names(s)[k]) - 1]

\* an order that names an axis twice cannot be transposed to: ValueError
transpose_invalid(order) ==
    \E i, j \in 1..Len(order) : i # j /\ order[i] = order[j]

\* data.transpose(order): the axis at position i becomes the old axis order[i]
transpose(data, order) ==
    [data EXCEPT !.axes = [i \in 1..Len(order) |-> data.axes[order[i] + 1]]]

\* axes[i].convert(units) and map_axis(i, points), for every axis i of m
map_axes(s, m) ==
    [s EXCEPT !.axes = [i \in 1..Len(s.axes) |->
        IF i <= Len(m.axes)
        THEN [s.axes[i] EXCEPT !.units = m.axes[i].units, !.points = m.axes[i].points]
        ELSE s.axes[i]]]

RECURSIVE Product(_)
Product(s) == IF s = <<>> THEN 1 ELSE Head(s) * Product(Tail(s))

\* data.chop(yaxis, xaxis, {}): one 2D piece for each point of the other axes
chop(data, yaxis, xaxis) ==
    LET others == SelectSeq([k \in 1..Len(data.axes) |-> k],
                            LAMBDA k : k # yaxis + 1 /\ k # xaxis + 1)
        count  == Product([k \in 1..Len(others) |-> data.axes[others[k]].points])
    IN  [piece \in 1..count |->
            [axes |-> <<data.axes[yaxis + 1], data.axes[xaxis + 1]>>]]

difference_2D_init(minuend_given, subtrahend_given, xaxis, yaxis) ==
    LET m     == copy(minuend_given)
        s     == copy(subtrahend_given)
        order == transpose_order(m, s)
        moved == map_axes(transpose(s, order), m)
    IN  IF ~axes_equivalent(m, s)
        THEN [NoDiff EXCEPT !.stage = "done", !.status = "raised",
                            !.exc = "RuntimeError", !.log = <<"copy", "copy">>,
                            !.minuend = m, !.subtrahend = s]
        ELSE IF transpose_invalid(order)
        THEN [NoDiff EXCEPT !.stage = "done", !.status = "raised",
                            !.exc = "ValueError",
                            !.log = <<"copy", "copy", "transpose">>,
                            !.minuend = m, !.subtrahend = s]
        ELSE [stage |-> "done", status |-> "returned", exc |-> "",
              log |-> <<"copy", "copy", "transpose", "map", "chop", "chop">>,
              minuend |-> m, subtrahend |-> moved,
              minuend_chopped |-> chop(m, yaxis, xaxis),
              subtrahend_chopped |-> chop(moved, yaxis, xaxis),
              font_size |-> 18]

\* the object the caller passed, when the constructor ends: the constructor
\* calls transpose, convert and map_axis on its copy only
caller_object_after(given, worked_on) == given

MaxAxes == 3

AxisNames == {"w1", "w2", "d2"}

\* the data objects tried: 2 to MaxAxes axes; the minuend in wavenumbers with
\* 2 points on each axis, the subtrahend in nanometres with 3
DataObjects(units, points) ==
    UNION {{[axes |-> [k \in 1..n |->
                [name |-> names[k], units |-> units, points |-> points]]] :
              names \in [1..n -> AxisNames]} : n \in 2..MaxAxes}

DiffInit ==
    /\ minuend \in DataObjects("wn", 2)
    /\ subtrahend \in DataObjects("nm", 3)
    /\ diff = NoDiff
    /\ request = DefaultRequest
    /\ pc = "ready"
    /\ result = NoResult
    /\ figures = {}
    /\ conv = NoConv
    /\ NoCallsYet
    /\ cycle = NoCycle
    /\ pcolor = NoPcolor
    /\ PlotIdle

\* the call difference_2D(minuend, subtrahend), with xaxis=1 and yaxis=0
Difference2D ==
    /\ diff.stage = "ready"
    /\ diff' = difference_2D_init(minuend, subtrahend, 1, 0)
    /\ minuend' = caller_object_after(minuend, diff'.minuend)
    /\ subtrahend' = caller_object_after(subtrahend, diff'.subtrahend)
    /\ UNCHANGED layout_vars
    /\ UNCHANGED <<cycle, pcolor>>
    /\ UNCHANGED plot_vars

DiffNext == Difference2D

DiffSpec == DiffInit /\ [][DiffNext]_vars

\* the number of axes of a data object that have the name x
NameCount(data, x) == Cardinality({k \in 1..Len(data.axes) : data.axes[k].name = x})

SameMultiset(a, b) == \A x \in AxisNames : NameCount(a, x) = NameCount(b, x)

DistinctNames(data) ==
    \A i, j \in 1..Len(data.axes) : i # j => data.axes[i].name # data.axes[j].name

\* C21: when the subtrahend has the axes of the minuend in any order, the
\* constructor returns and axis i of self.subtrahend has the name of axis i
\* of self.minuend, for every i.
C21_AxesAligned ==
    (/\ diff.stage = "done"
     /\ DistinctNames(minuend)
     /\ SameMultiset(minuend, subtrahend)) =>
        /\ diff.status = "returned"
        /\ axis_names(diff.subtrahend) = axis_names(diff.minuend)

(***************************************************************************)
(* The plot methods of mpl_1D, mpl_2D and difference_2D: one figure for    *)
(* each chop of the data, saved and closed when autosave is in effect.     *)
(*   artist   the object and the arguments of the call: its kind, the      *)
(*            number of chops, the first and last point of the x and y     *)
(*            axis, whether sideplot data is registered, and autosave,     *)
(*            output_folder, fname, xlim, xbin as passed ("" for None)     *)
(*   loop     the locals of the call: the statement it is at, the index i, *)
(*            fig (0 for None), the number of figures made, and autosave,  *)
(*            output_folder, fname, xlim as they are now                   *)
(*   figures  pyplot's open figures; a figure the user had open before     *)
(*            the call is UserFigure, the call's figures are 1, 2, ...     *)
(*   disk     the folders made and the files saved                         *)
(*   panels   for each figure drawn, the x-limits of its main panel        *)
(***************************************************************************)
UserFigure == -1

\* len(chopped) > 10 forces autosave
forced_autosave_from_10(nplots, autosave) == autosave \/ nplots >= 10

forced_autosave(nplots, autosave) == autosave \/ nplots > 10

\* the folder the files go to: the one given, the working directory for a
\* single plot, or a new folder named after the class and the time
prepared_folder(nplots, autosave, output_folder) ==
    IF ~autosave \/ output_folder # "" THEN output_folder
    ELSE IF nplots = 1 THEN "cwd"
    ELSE "made"

\* os.mkdir is called
makes_folder(nplots, autosave, output_folder) ==
    autosave /\ output_folder = "" /\ nplots # 1

\* a single plot saved to the working directory is named after the data
prepared_fname(nplots, autosave, output_folder, fname) ==
    IF autosave /\ output_folder = "" /\ nplots = 1 /\ fname = "" THEN "name"
    ELSE fname

\* the figure of the chop before is closed at the top of the loop
closes_stale(kind, fig, autosave) ==
    fig # 0 /\ (kind = "difference_2D" \/ autosave)

\* the arguments of the call of create_figure in mpl_1D.plot and mpl_2D.plot
figure_request(kind) ==
    IF kind = "mpl_1D"
    THEN [DefaultRequest EXCEPT !.cols = <<Num(1)>>,
                                !.aspects = << <<<<0, 0>>, R(1, 2)>> >>]
    ELSE DefaultRequest

\* a figure is opened: by create_figure, or by plt.figure in difference_2D
opens_figure(kind) ==
    kind = "difference_2D" \/ create_figure(figure_request(kind)).created

\* the call of create_figure ends with an exception
figure_raises(kind) ==
    kind # "difference_2D" /\ create_figure(figure_request(kind)).status = "raised"

Lowest(limits) == IF limits[1] < limits[2] THEN limits[1] ELSE limits[2]

Highest(limits) == IF limits[1] < limits[2] THEN limits[2] ELSE limits[1]

\* set_xlim on the main panel: xlim if it is not empty, else the first and
\* the last point of the x axis
main_set_xlim(xlim, xpoints) == IF xlim # NoLimits THEN xlim ELSE xpoints

\* the x-limits of the main panel of mpl_2D when the figure is finished: the
\* top panel shares its x axis, and with xbin its set_xlim resets both
shared_xlim(a, xlim) ==
    IF a.xbin THEN <<Lowest(a.xpoints), Highest(a.xpoints)>>
    ELSE main_set_xlim(xlim, a.xpoints)

\* the local xlim of mpl_2D.plot at the end of an iteration: the loops over
\* the sideplot data assign the limits of the side panel to it, first the
\* x-limits of the top panel, then the y-limits of the right panel
xlim_after_sideplots(a, xlim) ==
    IF a.ysideplot THEN a.ypoints
    ELSE IF a.xsideplot THEN shared_xlim(a, xlim)
    ELSE xlim

\* the x-limits of the main panel of the figure of one chop
panel_xlim(a, xlim) ==
    CASE a.kind = "mpl_1D" -> <<Lowest(a.xpoints), Highest(a.xpoints)>>
      [] a.kind = "mpl_2D" -> shared_xlim(a, xlim)
      [] OTHER -> main_set_xlim(xlim, a.xpoints)

\* plt.gcf(): the figure made last of those open
current_figure(open) == CHOOSE f \in open : \A g \in open : g <= f

\* a slip: plt.close() left out after the figure is saved
closed_after_save_none(open) == open

\* the open figures after plt.close(): the current one is closed
closed_after_save(open) ==
    IF open = {} THEN open ELSE open \ {current_figure(open)}

MaxPlots == 12

\* the limits tried for xlim: None, and a window inside the data
XlimArgs == {NoLimits, <<2, 3>>}

\* the object and the call are chosen; the sideplots, xlim and xbin are
\* those of mpl_2D only
PlotInit ==
    /\ \E kind \in {"mpl_1D", "mpl_2D", "difference_2D"}, nplots \in 0..MaxPlots,
          autosave \in BOOLEAN, output_folder \in {"", "given"},
          fname \in {"", "given"}, xpoints \in {<<1, 4>>, <<4, 1>>} :
          \E xlim \in IF kind = "mpl_1D" THEN {NoLimits} ELSE XlimArgs,
             xs \in IF kind = "mpl_2D" THEN BOOLEAN ELSE {FALSE},
             ys \in IF kind = "mpl_2D" THEN BOOLEAN ELSE {FALSE},
             xbin \in IF kind = "mpl_2D" THEN BOOLEAN ELSE {FALSE} :
             artist = [kind |-> kind, nplots |-> nplots, xpoints |-> xpoints,
                       ypoints |-> <<5, 9>>, xsideplot |-> xs, ysideplot |-> ys,
                       autosave |-> autosave, output_folder |-> output_folder,
                       fname |-> fname, xlim |-> xlim, xbin |-> xbin]
    /\ loop = [NoLoop EXCEPT !.at = "begin"]
    /\ figures \in {{}, {UserFigure}}
    /\ disk = NoDisk
    /\ panels = <<>>
    /\ request = DefaultRequest
    /\ pc = "ready"
    /\ result = NoResult
    /\ conv = NoConv
    /\ NoCallsYet
    /\ cycle = NoCycle
    /\ pcolor = NoPcolor
    /\ minuend = NoData
    /\ subtrahend = NoData
    /\ diff = NoDiff

\* the call begins: fig = None, autosave is forced for more than 10 plots,
\* the output folder is prepared
PlotBegin ==
    /\ loop.at = "begin"
    /\ LET autosave == forced_autosave(artist.nplots, artist.autosave)
       IN  /\ loop' = [loop EXCEPT
                  !.at = "top", !.i = 0, !.fig = 0, !.autosave = autosave,
                  !.output_folder =
                      prepared_folder(artist.nplots, autosave, artist.output_folder),
                  !.fname = prepared_fname(artist.nplots, autosave,
                                           artist.output_folder, artist.fname),
                  !.xlim = artist.xlim]
           /\ disk' = IF makes_folder(artist.nplots, autosave, artist.output_folder)
                      THEN [disk EXCEPT !.folders = @ \cup {"made"}]
                      ELSE disk
    /\ UNCHANGED <<artist, figures, panels>>
    /\ UNCHANGED <<request, pc, result, conv, defaults, omitted, history>>
    /\ UNCHANGED <<cycle, pcolor, minuend, subtrahend, diff>>

\* the top of the loop body for chop i: plt.close(fig) for the figure before
CloseStale ==
    /\ loop.at = "top"
    /\ loop.i < artist.nplots
    /\ figures' = IF closes_stale(artist.kind, loop.fig, loop.autosave)
                  THEN figures \ {loop.fig}
                  ELSE figures
    /\ loop' = [loop EXCEPT !.at = "create"]
    /\ UNCHANGED <<artist, disk, panels>>
    /\ UNCHANGED <<request, pc, result, conv, defaults, omitted, history>>
    /\ UNCHANGED <<cycle, pcolor, minuend, subtrahend, diff>>

\* fig, gs = create_figure(...), or fig = plt.figure(...) in difference_2D
NewFigure ==
    /\ loop.at = "create"
    /\ figures' = IF opens_figure(artist.kind) THEN figures \cup {loop.made + 1}
                  ELSE figures
    /\ loop' = IF figure_raises(artist.kind)
               THEN [loop EXCEPT !.at = "raised",
                        !.made = IF opens_figure(artist.kind) THEN @ + 1 ELSE @]
               ELSE [loop EXCEPT !.at = "draw", !.fig = loop.made + 1,
                                 !.made = @ + 1]
    /\ UNCHANGED <<artist, disk, panels>>
    /\ UNCHANGED <<request, pc, result, conv, defaults, omitted, history>>
    /\ UNCHANGED <<cycle, pcolor, minuend, subtrahend, diff>>

\* the panels of the figure are drawn; without autosave the body ends here
Draw ==
    /\ loop.at = "draw"
    /\ panels' = Append(panels, [fig |-> loop.fig, i |-> loop.i,
                                 xlim |-> panel_xlim(artist, loop.xlim)])
    /\ loop' = [loop EXCEPT
           !.xlim = IF artist.kind = "mpl_2D"
                    THEN xlim_after_sideplots(artist, loop.xlim) ELSE @,
           !.at = IF loop.autosave THEN "save" ELSE "top",
           !.i = IF loop.autosave THEN @ ELSE @ + 1]
    /\ UNCHANGED <<artist, figures, disk>>
    /\ UNCHANGED <<request, pc, result, conv, defaults, omitted, history>>
    /\ UNCHANGED <<cycle, pcolor, minuend, subtrahend, diff>>

\* plt.savefig(fpath): the current figure goes to the file named by i
SaveFigure ==
    /\ loop.at = "save"
    /\ disk' = [disk EXCEPT !.files = @ \cup
                   {[folder |-> loop.output_folder, fname |-> loop.fname,
                     i |-> loop.i, fig |-> current_figure(figures)]}]
    /\ loop' = [loop EXCEPT !.at = "close"]
    /\ UNCHANGED <<artist, figures, panels>>
    /\ UNCHANGED <<request, pc, result, conv, defaults, omitted, history>>
    /\ UNCHANGED <<cycle, pcolor, minuend, subtrahend, diff>>

\* plt.close(): the current figure is closed; the body ends
CloseFigure ==
    /\ loop.at = "close"
    /\ figures' = closed_after_save(figures)
    /\ loop' = [loop EXCEPT !.at = "top", !.i = @ + 1]
    /\ UNCHANGED <<artist, disk, panels>>
    /\ UNCHANGED <<request, pc, result, conv, defaults, omitted, history>>
    /\ UNCHANGED <<cycle, pcolor, minuend, subtrahend, diff>>

\* the loop is over: the call returns
PlotReturn ==
    /\ loop.at = "top"
    /\ loop.i = artist.nplots
    /\ loop' = [loop EXCEPT !.at = "done"]
    /\ UNCHANGED <<artist, figures, disk, panels>>
    /\ UNCHANGED <<request, pc, result, conv, defaults, omitted, history>>
    /\ UNCHANGED <<cycle, pcolor, minuend, subtrahend, diff>>

PlotNext ==
    \/ PlotBegin
    \/ CloseStale
    \/ NewFigure
    \/ Draw
    \/ SaveFigure
    \/ CloseFigure
    \/ PlotReturn

PlotSpec == PlotInit /\ [][PlotNext]_vars

\* the first and last point of the x axis, or its lowest and highest
DataXlims == {artist.xpoints, <<Lowest(artist.xpoints), Highest(artist.xpoints)>>}

\* C22: in mpl_2D.plot the main panel of every chop drawn has the x-limits
\* the caller passed as xlim, or the limits of the x axis when xlim is None,
\* whatever sideplot data is registered.
C22_MainPanelXlim ==
    artist.kind = "mpl_2D" =>
        \A k \in 1..Len(panels) :
            IF artist.xlim # NoLimits THEN panels[k].xlim = artist.xlim
            ELSE panels[k].xlim \in DataXlims

\* the figures open that the call has made
OwnFigures(open) == open \ {UserFigure}

\* C23: with more than 10 plots a call that has returned has saved one file
\* for each plot, of the figure of that plot, whatever autosave was passed;
\* with 10 plots or fewer and autosave=False no file is saved and no folder
\* is made.
C23_ForcedAutosave ==
    /\ (artist.nplots > 10 /\ loop.at = "done") =>
          /\ Cardinality(disk.files) = artist.nplots
          /\ \A i \in 0..(artist.nplots - 1) :
                \E file \in disk.files : file.i = i /\ file.fig = panels[i + 1].fig
    /\ (artist.nplots <= 10 /\ ~artist.autosave) => disk = NoDisk

\* 11 plots with autosave=False: 11 files in a new folder
C23_Witness ==
    /\ loop.at = "done"
    /\ artist.nplots = 11
    /\ ~artist.autosave
    /\ artist.output_folder = ""
    /\ Cardinality(disk.files) = 11
    /\ disk.folders = {"made"}

\* C24: with autosave in effect, at most one figure made by the call is open
\* after every step, a figure that a step closes has been saved, and no
\* figure made by the call is open when the call has returned.
C24_OneFigureAtATime ==
    [][loop'.autosave =>
          /\ Cardinality(OwnFigures(figures')) <= 1
          /\ \A f \in figures \ figures' : \E file \in disk.files : file.fig = f
          /\ loop'.at = "done" => OwnFigures(figures') = {}]_vars

\* three plots saved and closed, the user's own figure still open
C24_Witness ==
    /\ loop.at = "done"
    /\ loop.autosave
    /\ loop.made = 3
    /\ figures = {UserFigure}
    /\ {file.fig : file \in disk.files} = {1, 2, 3}

====
